---- MODULE Spec2Model ----
(***************************************************************************)
(* kalamar/item.py: Item, AtomItem and ItemProperties.                     *)
(*                                                                         *)
(* One access point and the one item built on it.  The item is a record    *)
(* of the fields of Item and of its ItemProperties; a python dict is a     *)
(* function on its set of keys, a MultiDict maps a key to the sequence of  *)
(* its values.  Every method is an operator from the item (and what the    *)
(* environment answers) to the item after the call, the value returned     *)
(* and the exception raised ("" when none).                                *)
(***************************************************************************)
EXTENDS Naturals, Sequences, FiniteSets, TLC

VARIABLES access_point, item, origin, last, parse_calls, open_calls, load_calls

vars == <<access_point, item, origin, last, parse_calls, open_calls, load_calls>>

---------------------------------------------------------------------------
(* Bounds of the model *)

\* entries of the access point's parser_aliases
MaxAliases == 1
\* properties a caller hands to create_item
MaxProperties == 1
\* invocations of the opener, of _custom_parse_data and of _load_subitems
\* followed in one run
MaxCalls == 2

\* property names
Names == {"_content", "a", "b"}
\* values a caller writes
Values == {"", "v"}
\* python's None, as read by a caller
None == "None"
\* what the file behind cork_opener holds
FileData == "toto"

\* the value the storage gives a storage property when it builds an item
StorageValue(name) == IF name = "_content" THEN "C" ELSE "A"

---------------------------------------------------------------------------
(* python dicts *)

EmptyDict == << >>

DictSet(d, k, v) == [x \in (DOMAIN d) \cup {k} |-> IF x = k THEN v ELSE d[x]]

DictGet(d, k, default) == IF k \in DOMAIN d THEN d[k] ELSE default

\* dict.update(other)
DictUpdate(d, other) ==
    [x \in (DOMAIN d) \cup (DOMAIN other) |-> IF x \in DOMAIN other THEN other[x] ELSE d[x]]

\* all dicts with at most n keys among K and values in V
Dicts(K, V, n) == UNION {[D -> V] : D \in {D \in SUBSET K : Cardinality(D) <= n}}

---------------------------------------------------------------------------
(* The environment *)

\* alias tables an access point may carry (an alias of a name to itself
\* resolves like no alias and is left out)
AliasTables == {t \in Dicts(Names, Names, MaxAliases) : \A k \in DOMAIN t : t[k] # k}

\* the storage_aliases an access point may carry
StorageAliasTables == {EmptyDict, [k \in {"a"} |-> "b"]}

\* the names an access point's storage may give as storage properties
StorageNames == {"_content", "a"}

\* Item subclasses found by utils.recursive_subclasses(Item), in order:
\* AtomItem, CapsuleItem (which inherits format = None) and one parser class
\* that extends _custom_parse_data, as the test cork CorkItem does, and one
\* capsule class that extends _load_subitems
Subclasses == << [name |-> "AtomItem", format |-> "binary"],
                 [name |-> "CapsuleItem", format |-> None],
                 [name |-> "CorkItem", format |-> "cork"],
                 [name |-> "CorkCapsule", format |-> "capsule"] >>

ParserNames == {None, "binary", "cork", "I do not exist"}

\* the access points of capsules
CapsuleAccessPoints == [parser_name : {"capsule"},
                        parser_aliases : AliasTables,
                        storage_aliases : StorageAliasTables,
                        storage_properties : SUBSET StorageNames]

\* the access points of atoms and of items that are no capsules
AccessPoints == [parser_name : ParserNames,
                 parser_aliases : AliasTables,
                 storage_aliases : StorageAliasTables,
                 storage_properties : SUBSET StorageNames]

\* openers a caller hands to get_item_parser
Openers == {"cork_opener", "broken_opener", "None"}

\* what an extended _custom_parse_data returns: a MultiDict, or it raises
MultiDicts == { EmptyDict,
                [k \in {"a"} |-> <<"p", "q">>],
                [k \in {"_content", "b"} |-> IF k = "b" THEN <<"r">> ELSE <<"s">>] }

Hooks == [raises : {FALSE}, result : MultiDicts]
            \cup {[raises |-> TRUE, result |-> EmptyDict]}

\* what an extended _load_subitems returns: a list of items, or it raises
LoadHooks == [raises : {FALSE}, result : {<< >>, <<"child">>}]
                \cup {[raises |-> TRUE, result |-> << >>]}

---------------------------------------------------------------------------
(* ItemProperties *)

\* key = self._item.aliases.get(key, key)
Aliasing(self, key) == DictGet(self.aliases, key, key)

\* a __setitem__ that flags the content as modified whatever the key
setitem_always_modified(self, key, value) ==
    LET k == Aliasing(self, key) IN
    IF k \in DOMAIN self.storage_properties
    THEN [self EXCEPT !.storage_properties = DictSet(@, k, value),
                      !.parser_content_modified = TRUE]
    ELSE [self EXCEPT !.data = DictSet(@, k, <<value>>),
                      !.parser_content_modified = TRUE]

\* a __setitem__ on an item whose old snapshot is the live dict, not a copy
setitem_writes_old(self, key, value) ==
    LET k == Aliasing(self, key) IN
    IF k \in DOMAIN self.storage_properties
    THEN [self EXCEPT !.storage_properties = DictSet(@, k, value),
                      !.storage_properties_old = DictSet(@, k, value)]
    ELSE [self EXCEPT !.data = DictSet(@, k, <<value>>),
                      !.parser_content_modified = TRUE]

ItemProperties__setitem__(self, key, value) ==
    LET k == Aliasing(self, key) IN
    IF k \in DOMAIN self.storage_properties
    THEN [self EXCEPT !.storage_properties = DictSet(@, k, value)]
    ELSE [self EXCEPT !.data = DictSet(@, k, <<value>>),
                      !.parser_content_modified = TRUE]

\* ItemProperties.__init__, on an item whose Item fields are set
ItemProperties__init__(self, storage_properties) ==
    LET s1 == [self EXCEPT !._loaded = FALSE,
                           !.storage_properties = storage_properties,
                           !.storage_properties_old = storage_properties,
                           !.data = EmptyDict]
        s2 == ItemProperties__setitem__(s1, "_content", "")
    IN [s2 EXCEPT !.parser_content_modified = FALSE]

content_modified(self) == self.parser_content_modified

keys_without_aliases(self) == (DOMAIN self.data) \cup (DOMAIN self.storage_properties)

\* ItemProperties.keys
keys(self) == keys_without_aliases(self) \cup (DOMAIN self.aliases)

\* MultiDict.getlist, which ItemProperties inherits: the values the MultiDict
\* itself holds under key, [] when it holds none
getlist(self, key) == DictGet(self.data, key, << >>)

---------------------------------------------------------------------------
(* Item *)

NoItem == [cls |-> "", _opener |-> "None", _stream |-> << >>, _subitems |-> << >>,
           aliases |-> EmptyDict,
           storage_properties |-> EmptyDict, storage_properties_old |-> EmptyDict,
           data |-> EmptyDict, _loaded |-> FALSE, parser_content_modified |-> FALSE]

\* Item.__init__
Item__init__(cls, ap, opener, storage_properties) ==
    LET s0 == [NoItem EXCEPT !.cls = cls, !._opener = opener, !._stream = << >>,
                             !.aliases = DictUpdate(ap.parser_aliases, ap.storage_aliases)]
    IN ItemProperties__init__(s0, storage_properties)

\* the subclasses whose format is the access point's parser_name
Matching(ap) == {i \in DOMAIN Subclasses : Subclasses[i].format = ap.parser_name}

\* a get_item_parser that falls back on the base class for an unknown format
get_item_parser_fallback(ap, opener, storage_properties) ==
    IF ap.parser_name = None \/ Matching(ap) = {}
    THEN [exc |-> "", msg |-> "", item |-> Item__init__("Item", ap, "None", storage_properties)]
    ELSE LET i == CHOOSE i \in Matching(ap) : \A j \in Matching(ap) : i <= j
         IN [exc |-> "", msg |-> "",
             item |-> Item__init__(Subclasses[i].name, ap, opener, storage_properties)]

\* Item.get_item_parser: [exc, msg, item]
get_item_parser(ap, opener, storage_properties) ==
    IF ap.parser_name = None
    THEN [exc |-> "", msg |-> "", item |-> Item__init__("Item", ap, "None", storage_properties)]
    ELSE IF Matching(ap) # {}
    THEN LET i == CHOOSE i \in Matching(ap) : \A j \in Matching(ap) : i <= j
         IN [exc |-> "", msg |-> "",
             item |-> Item__init__(Subclasses[i].name, ap, opener, storage_properties)]
    ELSE [exc |-> "ParserNotAvailable", msg |-> "Unknown parser: " \o ap.parser_name,
          item |-> NoItem]

\* an _open that calls the opener whether or not a stream is held
_open_reopens(self) ==
    IF self._opener # "None"
    THEN IF self._opener = "broken_opener"
         THEN [self |-> self, exc |-> "IOError", opened |-> 1]
         ELSE [self |-> [self EXCEPT !._stream =
                            << IF self._opener = "cork_opener" THEN FileData ELSE "" >>],
               exc |-> "", opened |-> 1]
    ELSE [self |-> self, exc |-> "", opened |-> 0]

\* Item._open: [self, exc, opened]; opened counts the calls of the opener
_open(self) ==
    IF self._stream = << >> /\ self._opener # "None"
    THEN IF self._opener = "broken_opener"
         THEN [self |-> self, exc |-> "IOError", opened |-> 1]
         ELSE [self |-> [self EXCEPT !._stream =
                            << IF self._opener = "cork_opener" THEN FileData ELSE "" >>],
               exc |-> "", opened |-> 1]
    ELSE [self |-> self, exc |-> "", opened |-> 0]

\* _custom_parse_data of the item's class: [self, exc, prop]
\*   Item: an empty MultiDict; AtomItem: '_content' is self._stream.read();
\*   CorkItem: what its hook answers
_custom_parse_data(self, hook) ==
    IF self.cls = "AtomItem"
    THEN IF self._stream = << >>
         THEN [self |-> self, exc |-> "AttributeError", prop |-> EmptyDict]
         ELSE [self |-> [self EXCEPT !._stream = << "" >>], exc |-> "",
               prop |-> [k \in {"_content"} |-> << self._stream[1] >>]]
    ELSE IF self.cls = "CorkItem"
    THEN IF hook.raises
         THEN [self |-> self, exc |-> "HookError", prop |-> EmptyDict]
         ELSE [self |-> self, exc |-> "", prop |-> hook.result]
    ELSE [self |-> self, exc |-> "", prop |-> EmptyDict]

\* an update_parser_properties that keeps what the user has set: it writes
\* a key only when "key not in pkeys"
update_parser_properties_keeps_set(self, properties) ==
    IF "_content" \notin DOMAIN self.data
    THEN [self |-> self, exc |-> "KeyError"]
    ELSE LET pkeys == (DOMAIN self.data) \
                        (IF ~self._loaded /\ self.data["_content"][1] = ""
                         THEN {"_content"} ELSE {})
         IN [self |-> [self EXCEPT !.data =
                         [k \in (DOMAIN self.data) \cup (DOMAIN properties) |->
                             IF k \in DOMAIN properties /\ k \notin pkeys
                             THEN << properties[k][1] >>
                             ELSE self.data[k]]],
             exc |-> ""]

\* ItemProperties.update_parser_properties: [self, exc]
\*   super().__getitem__('_content') raises KeyError when the MultiDict holds
\*   no '_content'; properties[key] is the first value of key, and
\*   MultiDict.__setitem__ stores it as the only value
update_parser_properties(self, properties) ==
    IF "_content" \notin DOMAIN self.data
    THEN [self |-> self, exc |-> "KeyError"]
    ELSE [self |-> [self EXCEPT !.data =
                      [k \in (DOMAIN self.data) \cup (DOMAIN properties) |->
                          IF k \in DOMAIN properties THEN << properties[k][1] >>
                          ELSE self.data[k]]],
          exc |-> ""]

\* Item._parse_data: [self, exc, opened, parsed]
_parse_data(self, hook) ==
    LET o == _open(self) IN
    IF o.exc # ""
    THEN [self |-> o.self, exc |-> o.exc, opened |-> o.opened, parsed |-> 0]
    ELSE LET p == _custom_parse_data(o.self, hook) IN
         IF p.exc # ""
         THEN [self |-> p.self, exc |-> p.exc, opened |-> o.opened, parsed |-> 1]
         ELSE LET u == update_parser_properties(p.self, p.prop) IN
              [self |-> u.self, exc |-> u.exc, opened |-> o.opened, parsed |-> 1]

\* a __getitem__ that parses on every read past the storage properties
getitem_always_parses(self, key, hook) ==
    LET k == Aliasing(self, key) IN
    IF k \in DOMAIN self.storage_properties
    THEN [self |-> self, ret |-> self.storage_properties[k], exc |-> "",
          opened |-> 0, parsed |-> 0]
    ELSE LET p == _parse_data(self, hook)
         IN IF p.exc # ""
            THEN [self |-> p.self, ret |-> None, exc |-> p.exc,
                  opened |-> p.opened, parsed |-> p.parsed]
            ELSE [self |-> [p.self EXCEPT !._loaded = TRUE],
                  ret |-> IF k \in DOMAIN p.self.data THEN p.self.data[k][1] ELSE None,
                  exc |-> "", opened |-> p.opened, parsed |-> p.parsed]

\* a __getitem__ that loads the item before it looks at the storage properties
getitem_loads_first(self, key, hook) ==
    LET k == Aliasing(self, key)
        p == IF self._loaded
             THEN [self |-> self, exc |-> "", opened |-> 0, parsed |-> 0]
             ELSE _parse_data(self, hook)
    IN IF p.exc # ""
       THEN [self |-> p.self, ret |-> None, exc |-> p.exc,
             opened |-> p.opened, parsed |-> p.parsed]
       ELSE [self |-> [p.self EXCEPT !._loaded = TRUE],
             ret |-> IF k \in DOMAIN p.self.storage_properties
                     THEN p.self.storage_properties[k]
                     ELSE IF k \in DOMAIN p.self.data THEN p.self.data[k][1] ELSE None,
             exc |-> "", opened |-> p.opened, parsed |-> p.parsed]

\* a __getitem__ that marks the item loaded before it parses
getitem_marks_loaded_first(self, key, hook) ==
    LET k == Aliasing(self, key) IN
    IF k \in DOMAIN self.storage_properties
    THEN [self |-> self, ret |-> self.storage_properties[k], exc |-> "",
          opened |-> 0, parsed |-> 0]
    ELSE LET p == IF self._loaded
                  THEN [self |-> self, exc |-> "", opened |-> 0, parsed |-> 0]
                  ELSE _parse_data(self, hook)
         IN IF p.exc # ""
            THEN [self |-> [p.self EXCEPT !._loaded = TRUE], ret |-> None, exc |-> p.exc,
                  opened |-> p.opened, parsed |-> p.parsed]
            ELSE [self |-> [p.self EXCEPT !._loaded = TRUE],
                  ret |-> IF k \in DOMAIN p.self.data THEN p.self.data[k][1] ELSE None,
                  exc |-> "", opened |-> p.opened, parsed |-> p.parsed]

\* ItemProperties.__getitem__: [self, ret, exc, opened, parsed]
ItemProperties__getitem__(self, key, hook) ==
    LET k == Aliasing(self, key) IN
    IF k \in DOMAIN self.storage_properties
    THEN [self |-> self, ret |-> self.storage_properties[k], exc |-> "",
          opened |-> 0, parsed |-> 0]
    ELSE LET p == IF self._loaded
                  THEN [self |-> self, exc |-> "", opened |-> 0, parsed |-> 0]
                  ELSE _parse_data(self, hook)
         IN IF p.exc # ""
            THEN [self |-> p.self, ret |-> None, exc |-> p.exc,
                  opened |-> p.opened, parsed |-> p.parsed]
            ELSE [self |-> [p.self EXCEPT !._loaded = TRUE],
                  ret |-> IF k \in DOMAIN p.self.data THEN p.self.data[k][1] ELSE None,
                  exc |-> "", opened |-> p.opened, parsed |-> p.parsed]

\* _custom_serialize of the item's class: [ret, exc]
_custom_serialize(self, properties) ==
    IF self.cls = "AtomItem"
    THEN IF "_content" \in DOMAIN properties
         THEN [ret |-> properties["_content"], exc |-> ""]
         ELSE [ret |-> None, exc |-> "KeyError"]
    ELSE [ret |-> "", exc |-> ""]

\* Item.serialize: [self, ret, exc, props, opened, parsed]; props is the dict
\* handed to _custom_serialize.  The names are those of keys_without_aliases()
\* at the call; the first name that is read past the storage properties loads
\* the item, and every value is read through properties[name].
serialize(self, hook) ==
    LET names == keys_without_aliases(self)
        lazy  == {n \in names : Aliasing(self, n) \notin DOMAIN self.storage_properties}
        g     == IF lazy = {}
                 THEN [self |-> self, ret |-> None, exc |-> "", opened |-> 0, parsed |-> 0]
                 ELSE ItemProperties__getitem__(self, CHOOSE n \in lazy : TRUE, hook)
    IN IF g.exc # ""
       THEN [self |-> g.self, ret |-> None, exc |-> g.exc, props |-> EmptyDict,
             opened |-> g.opened, parsed |-> g.parsed]
       ELSE LET properties == [n \in names |-> ItemProperties__getitem__(g.self, n, hook).ret]
                c == _custom_serialize(g.self, properties)
            IN [self |-> g.self, ret |-> c.ret, exc |-> c.exc, props |-> properties,
                opened |-> g.opened, parsed |-> g.parsed]

\* the names of a dict in the order of "for name in properties"
RECURSIVE SetAll(_, _, _)
SetAll(self, properties, todo) ==
    IF todo = {} THEN self
    ELSE LET name == CHOOSE n \in todo : TRUE
         IN SetAll(ItemProperties__setitem__(self, name, properties[name]),
                   properties, todo \ {name})

\* a create_item that hands the item over as not modified
create_item_clean(ap, properties) ==
    LET storage_properties == [name \in ap.storage_properties |-> None]
        r == get_item_parser(ap, "StringIO", storage_properties)
    IN IF r.exc # "" THEN r
       ELSE LET i1 == [r.item EXCEPT !.storage_properties_old = EmptyDict,
                                     !._loaded = TRUE]
                p1 == IF "_content" \notin DOMAIN properties
                      THEN DictSet(properties, "_content", "")
                      ELSE properties
            IN [r EXCEPT !.item = [SetAll(i1, p1, DOMAIN p1)
                                     EXCEPT !.parser_content_modified = FALSE]]

\* a create_item that does not mark the properties as loaded
create_item_not_loaded(ap, properties) ==
    LET storage_properties == [name \in ap.storage_properties |-> None]
        r == get_item_parser(ap, "StringIO", storage_properties)
    IN IF r.exc # "" THEN r
       ELSE LET i1 == [r.item EXCEPT !.storage_properties_old = EmptyDict]
                p1 == IF "_content" \notin DOMAIN properties
                      THEN DictSet(properties, "_content", "")
                      ELSE properties
            IN [r EXCEPT !.item = SetAll(i1, p1, DOMAIN p1)]

\* Item.create_item: [exc, msg, item]
create_item(ap, properties) ==
    LET storage_properties == [name \in ap.storage_properties |-> None]
        r == get_item_parser(ap, "StringIO", storage_properties)
    IN IF r.exc # "" THEN r
       ELSE LET i1 == [r.item EXCEPT !.storage_properties_old = EmptyDict,
                                     !._loaded = TRUE]
                p1 == IF "_content" \notin DOMAIN properties
                      THEN DictSet(properties, "_content", "")
                      ELSE properties
            IN [r EXCEPT !.item = SetAll(i1, p1, DOMAIN p1)]

\* a subitems that loads the subitems at every access
subitems_always_loads(self, hook, fresh) ==
    IF hook.raises
    THEN [self |-> self, ret |-> << >>, exc |-> "LoadError", loaded |-> 1]
    ELSE LET l == << [id |-> fresh, items |-> hook.result] >>
         IN [self |-> [self EXCEPT !._subitems = l], ret |-> l, exc |-> "",
             loaded |-> 1]

\* CapsuleItem.subitems: [self, ret, exc, loaded]; _subitems is << >> while the
\* item has no such attribute, else the one list object, which is told from
\* another list by its id (fresh at each construction)
subitems(self, hook, fresh) ==
    IF self._subitems = << >>
    THEN IF hook.raises
         THEN [self |-> self, ret |-> << >>, exc |-> "LoadError", loaded |-> 1]
         ELSE LET l == << [id |-> fresh, items |-> hook.result] >>
              IN [self |-> [self EXCEPT !._subitems = l], ret |-> l, exc |-> "",
                  loaded |-> 1]
    ELSE [self |-> self, ret |-> self._subitems, exc |-> "", loaded |-> 0]

\* AtomItem.read
read(self, hook) == ItemProperties__getitem__(self, "_content", hook)

\* AtomItem.write
write(self, value) == ItemProperties__setitem__(self, "_content", value)

---------------------------------------------------------------------------
(* The calls *)

NoCall == [op |-> "", key |-> "", val |-> "", ret |-> "", exc |-> "", msg |-> "",
           props |-> EmptyDict, list |-> << >>, keys |-> {}]

Init ==
    /\ access_point \in AccessPoints
    /\ item = NoItem
    /\ origin = "none"
    /\ last = NoCall
    /\ parse_calls = 0
    /\ open_calls = 0
    /\ load_calls = 0

\* the storage builds the item of a stored resource
GetItemParser(opener) ==
    /\ origin = "none"
    /\ LET S == [k \in access_point.storage_properties |-> StorageValue(k)]
           r == get_item_parser(access_point, opener, S)
       IN /\ item' = r.item
          /\ origin' = IF r.exc = "" THEN "get_item_parser" ELSE "raised"
          /\ last' = [NoCall EXCEPT !.op = "get_item_parser", !.exc = r.exc, !.msg = r.msg,
                                    !.props = S]
    /\ UNCHANGED <<access_point, parse_calls, open_calls, load_calls>>

\* a new item is made for the access point
CreateItem(properties) ==
    /\ origin = "none"
    /\ LET r == create_item(access_point, properties)
       IN /\ item' = r.item
          /\ origin' = IF r.exc = "" THEN "create_item" ELSE "raised"
          /\ last' = [NoCall EXCEPT !.op = "create_item", !.exc = r.exc, !.msg = r.msg,
                                    !.props = properties]
    /\ UNCHANGED <<access_point, parse_calls, open_calls, load_calls>>

Built == origin \in {"get_item_parser", "create_item"}

\* what the parse hook may answer on this item
HooksOf(self) == IF self.cls = "CorkItem" THEN Hooks
                 ELSE {[raises |-> FALSE, result |-> EmptyDict]}

\* item.properties[key]
Get(key) ==
    /\ Built
    /\ \E hook \in HooksOf(item) :
         LET r == ItemProperties__getitem__(item, key, hook)
         IN /\ parse_calls + r.parsed <= MaxCalls
            /\ open_calls + r.opened <= MaxCalls
            /\ item' = r.self
            /\ last' = [NoCall EXCEPT !.op = "get", !.key = key, !.ret = r.ret, !.exc = r.exc]
            /\ parse_calls' = parse_calls + r.parsed
            /\ open_calls' = open_calls + r.opened
    /\ UNCHANGED <<access_point, origin, load_calls>>

\* item.properties[key] = value
Set(key, value) ==
    /\ Built
    /\ item' = ItemProperties__setitem__(item, key, value)
    /\ last' = [NoCall EXCEPT !.op = "set", !.key = key, !.val = value]
    /\ UNCHANGED <<access_point, origin, parse_calls, open_calls, load_calls>>

\* item.serialize()
Serialize ==
    /\ Built
    /\ \E hook \in HooksOf(item) :
         LET r == serialize(item, hook)
         IN /\ parse_calls + r.parsed <= MaxCalls
            /\ open_calls + r.opened <= MaxCalls
            /\ item' = r.self
            /\ last' = [NoCall EXCEPT !.op = "serialize", !.ret = r.ret, !.exc = r.exc,
                                      !.props = r.props]
            /\ parse_calls' = parse_calls + r.parsed
            /\ open_calls' = open_calls + r.opened
    /\ UNCHANGED <<access_point, origin, load_calls>>

\* item.read()
Read ==
    /\ Built
    /\ item.cls = "AtomItem"
    /\ LET r == read(item, [raises |-> FALSE, result |-> EmptyDict])
       IN /\ parse_calls + r.parsed <= MaxCalls
          /\ open_calls + r.opened <= MaxCalls
          /\ item' = r.self
          /\ last' = [NoCall EXCEPT !.op = "read", !.key = "_content", !.ret = r.ret,
                                    !.exc = r.exc]
          /\ parse_calls' = parse_calls + r.parsed
          /\ open_calls' = open_calls + r.opened
    /\ UNCHANGED <<access_point, origin, load_calls>>

\* item.write(value)
Write(value) ==
    /\ Built
    /\ item.cls = "AtomItem"
    /\ item' = write(item, value)
    /\ last' = [NoCall EXCEPT !.op = "write", !.key = "_content", !.val = value]
    /\ UNCHANGED <<access_point, origin, parse_calls, open_calls, load_calls>>

\* item.properties.getlist(key)
GetList(key) ==
    /\ Built
    /\ last' = [NoCall EXCEPT !.op = "getlist", !.key = key, !.list = getlist(item, key)]
    /\ UNCHANGED <<access_point, item, origin, parse_calls, open_calls, load_calls>>

\* item.properties.keys() and item.properties.keys_without_aliases()
Keys ==
    /\ Built
    /\ \/ last' = [NoCall EXCEPT !.op = "keys", !.keys = keys(item)]
       \/ last' = [NoCall EXCEPT !.op = "keys_without_aliases",
                                 !.keys = keys_without_aliases(item)]
    /\ UNCHANGED <<access_point, item, origin, parse_calls, open_calls, load_calls>>

\* item.subitems
Subitems ==
    /\ Built
    /\ item.cls = "CorkCapsule"
    /\ \E hook \in LoadHooks :
         LET r == subitems(item, hook, load_calls + 1)
         IN /\ load_calls + r.loaded <= MaxCalls
            /\ item' = r.self
            /\ last' = [NoCall EXCEPT !.op = "subitems", !.list = r.ret, !.exc = r.exc]
            /\ load_calls' = load_calls + r.loaded
    /\ UNCHANGED <<access_point, origin, parse_calls, open_calls>>

Next ==
    \/ \E opener \in Openers : GetItemParser(opener)
    \/ \E properties \in Dicts(Names, Values, MaxProperties) : CreateItem(properties)
    \/ \E key \in Names : Get(key)
    \/ \E key \in Names, value \in Values : Set(key, value)
    \/ Serialize
    \/ Read
    \/ \E value \in Values : Write(value)
    \/ \E key \in Names : GetList(key)
    \/ Keys

Spec == Init /\ [][Next]_vars

\* the same calls on a capsule, whose subitems are read too
InitCapsule ==
    /\ access_point \in CapsuleAccessPoints
    /\ item = NoItem
    /\ origin = "none"
    /\ last = NoCall
    /\ parse_calls = 0
    /\ open_calls = 0
    /\ load_calls = 0

NextCapsule ==
    \/ \E opener \in Openers : GetItemParser(opener)
    \/ \E properties \in Dicts(Names, Values, MaxProperties) : CreateItem(properties)
    \/ \E key \in Names : Get(key)
    \/ \E key \in Names, value \in Values : Set(key, value)
    \/ Serialize
    \/ Subitems

SpecCapsule == InitCapsule /\ [][NextCapsule]_vars

---------------------------------------------------------------------------
(* Properties *)

\* the canonical key of a name is a storage property of the item
StorageOrigin(self, name) == Aliasing(self, name) \in DOMAIN self.storage_properties

\* neither the opener nor the parse hook of the item can raise
NoRaise(self) ==
    /\ self._opener # "broken_opener"
    /\ self.cls = "AtomItem" => self._opener # "None"

\* the answers of the parse hook that are no exception
Returning(self) == {h \in HooksOf(self) : ~h.raises}

\* C1: on an AtomItem whose opener and stream work, built by get_item_parser
\* (and not yet read) or by create_item, write(p) followed by serialize()
\* returns p.
C1_WriteThenSerialize ==
    (Built /\ item.cls = "AtomItem" /\ NoRaise(item) /\ last.op = "write")
        => LET r == serialize(item, [raises |-> FALSE, result |-> EmptyDict])
           IN r.exc = "" /\ r.ret = last.val

\* no canonical key of the alias table is itself an alias
NoAliasChain(self) == \A a \in DOMAIN self.aliases : self.aliases[a] \notin DOMAIN self.aliases

\* C2: after set(a, v) on an alias a -> c of the merged alias table, on an
\* item loaded or not, get(a) = v and get(c) = v.  Stated where c is no alias
\* itself and the parsed map holds '_content'.
C2_AliasRoundTrip ==
    (Built /\ NoRaise(item) /\ NoAliasChain(item) /\ "_content" \in DOMAIN item.data
        /\ last.op = "set" /\ last.key \in DOMAIN item.aliases)
        => \A hook \in Returning(item) :
              LET ga == ItemProperties__getitem__(item, last.key, hook)
                  gc == ItemProperties__getitem__(ga.self, item.aliases[last.key], hook)
              IN ga.exc = "" /\ ga.ret = last.val /\ gc.exc = "" /\ gc.ret = last.val

\* C3 (as claimed): over any calls on one item the parse hook is invoked at
\* most once, whether an invocation returns or raises.  Stated on items whose
\* parsed map holds '_content', where the merge of the hook's result cannot
\* raise.
C3_ParseAtMostOnce == "_content" \in DOMAIN item.data => parse_calls <= 1

\* C3 (amended): the parse hook is invoked only while the item is not loaded,
\* at most once in a call; a call that invokes it and raises nothing leaves
\* the item loaded, and a loaded item stays loaded and never invokes it again.
C3_ParseOnlyWhileNotLoaded ==
    [][ /\ parse_calls' # parse_calls
            => ~item._loaded /\ parse_calls' = parse_calls + 1
        /\ (parse_calls' # parse_calls /\ last'.exc = "") => item'._loaded
        /\ (Built /\ item._loaded) => (item'._loaded /\ parse_calls' = parse_calls) ]_vars

\* the hook raised once, was invoked again by a later read and loaded the item
C3_Witness == parse_calls = 2 /\ item._loaded /\ last.op \in {"get", "read", "serialize"}

\* C4: set(name, v) on a name that resolves to a storage property leaves
\* content_modified() as it was; on any other name it leaves it true.
C4_StorageIsolation ==
    [][ (Built /\ last'.op = "set")
            => IF StorageOrigin(item, last'.key)
               THEN content_modified(item') = content_modified(item)
               ELSE content_modified(item') ]_vars

\* a storage property was set on an item whose content is not modified
C4_Witness ==
    /\ Built /\ last.op = "set" /\ StorageOrigin(item, last.key)
    /\ item.storage_properties[Aliasing(item, last.key)] = last.val
    /\ ~content_modified(item)

\* C5 (as claimed): right after create_item(access_point, properties), with
\* no properties or only storage-origin ones, content_modified() is false.
C5_CreateItemNotModified ==
    (origin = "create_item" /\ last.op = "create_item"
        /\ \A name \in DOMAIN last.props : StorageOrigin(item, name))
        => ~content_modified(item)

\* C5 (amended): right after create_item(access_point, properties),
\* content_modified() is false when '_content' and every name of properties
\* resolve to storage properties, and true otherwise.
C5_CreateItemModified ==
    (origin = "create_item" /\ last.op = "create_item")
        => (content_modified(item)
              <=> \E name \in (DOMAIN last.props) \cup {"_content"} :
                     ~StorageOrigin(item, name))

\* create_item was given a storage property and left the content not modified
C5_Witness ==
    /\ origin = "create_item" /\ last.op = "create_item"
    /\ DOMAIN last.props # {}
    /\ ~content_modified(item)

\* C6: an item made by create_item is loaded when create_item returns and
\* stays loaded; no later get, set or serialize invokes the parse hook or the
\* opener.
C6_CreateItemNeverParses ==
    origin = "create_item"
        => item._loaded /\ parse_calls = 0 /\ open_calls = 0 /\ item._stream = << >>

\* a property that is no storage property was read on an item of create_item
C6_Witness ==
    /\ origin = "create_item"
    /\ last.op \in {"get", "serialize"} /\ last.exc = ""
    /\ \E name \in keys_without_aliases(item) : ~StorageOrigin(item, name)
    /\ last.op = "get" => ~StorageOrigin(item, last.key)

\* C7: get(name) of a name whose canonical key is a storage property returns
\* the live storage value, and serialize hands _custom_serialize that same
\* value under the canonical key.
C7_StoragePrecedence ==
    Built =>
      \A name \in Names :
        StorageOrigin(item, name) =>
          LET k == Aliasing(item, name) IN
          /\ \A hook \in HooksOf(item) :
               LET g == ItemProperties__getitem__(item, name, hook)
               IN g.exc = "" /\ g.ret = item.storage_properties[k]
          /\ (last.op = "serialize" /\ last.exc = "")
               => (k \in DOMAIN last.props /\ last.props[k] = item.storage_properties[k])

\* C8: the old snapshot of an item built with storage properties S is S in
\* every state (it is {} once create_item has cleared it), and set on a
\* storage property changes the live storage value and nothing else.
C8_OldSnapshotKept ==
    /\ origin = "get_item_parser"
         => item.storage_properties_old
              = [k \in access_point.storage_properties |-> StorageValue(k)]
    /\ origin = "create_item" => item.storage_properties_old = EmptyDict
    /\ Built =>
         \A name \in Names, value \in Values :
           StorageOrigin(item, name) =>
             ItemProperties__setitem__(item, name, value)
               = [item EXCEPT !.storage_properties[Aliasing(item, name)] = value]

\* a storage property was set: the live value differs from the old snapshot
C8_Witness ==
    /\ origin = "get_item_parser" /\ last.op = "set" /\ StorageOrigin(item, last.key)
    /\ item._loaded
    /\ item.storage_properties[Aliasing(item, last.key)] = last.val
    /\ item.storage_properties # item.storage_properties_old

\* the format of an Item class
FormatOf(cls) ==
    IF cls = "Item" THEN None
    ELSE Subclasses[CHOOSE i \in DOMAIN Subclasses : Subclasses[i].name = cls].format

\* C9: get_item_parser on a parser_name that is not None and is the format of
\* no Item subclass raises ParserNotAvailable naming the format and returns
\* no item; when a subclass matches, the item is of a class with that format.
C9_ParserDispatch ==
    (last.op = "get_item_parser" /\ access_point.parser_name # None)
        => IF \A i \in DOMAIN Subclasses : Subclasses[i].format # access_point.parser_name
           THEN /\ origin = "raised" /\ item = NoItem
                /\ last.exc = "ParserNotAvailable"
                /\ last.msg = "Unknown parser: " \o access_point.parser_name
           ELSE /\ origin = "get_item_parser" /\ last.exc = ""
                /\ FormatOf(item.cls) = access_point.parser_name

\* get_item_parser raised ParserNotAvailable
C9_Witness ==
    /\ last.op = "get_item_parser" /\ last.exc = "ParserNotAvailable"
    /\ last.msg = "Unknown parser: I do not exist"

\* C10: when neither the opener nor the parse hook raises, get(name) of a name
\* whose canonical key is no storage property and not in the parsed map after
\* the lazy load returns None and raises nothing.
C10_MissingReadsNone ==
    (Built /\ last.op = "get"
        /\ last.exc \notin {"IOError", "AttributeError", "HookError"}
        /\ ~StorageOrigin(item, last.key)
        /\ Aliasing(item, last.key) \notin DOMAIN item.data)
        => last.exc = "" /\ last.ret = None

\* what the parse hook of the item returns when the item is loaded now: the
\* MultiDict that _parse_data hands to update_parser_properties
ParsedNow(self, hook) == _custom_parse_data(_open(self).self, hook).prop

\* C11: after the lazy load, getlist(k) of every key k of the parse hook's
\* result is the full ordered sequence of values the hook returned for k.
C11_GetlistFullSequence ==
    (Built /\ ~item._loaded /\ NoRaise(item))
        => \A hook \in Returning(item), key \in Names :
              LET g == ItemProperties__getitem__(item, key, hook)
              IN (~StorageOrigin(item, key) /\ g.exc = "")
                    => \A k \in DOMAIN ParsedNow(item, hook) :
                          getlist(g.self, k) = ParsedNow(item, hook)[k]

\* C12: whenever getlist(name) is not empty its first value is get(name):
\* getlist resolves aliases, triggers the lazy load and lets the storage
\* properties shadow the parsed ones as get does.  Stated where the parsed map
\* holds '_content'.
C12_GetlistFirstIsGet ==
    (Built /\ NoRaise(item) /\ "_content" \in DOMAIN item.data
        /\ last.op = "getlist" /\ last.list # << >>)
        => \A hook \in Returning(item) :
              LET g == ItemProperties__getitem__(item, last.key, hook)
              IN g.exc = "" /\ last.list[1] = g.ret

\* C13 (as claimed): over any calls on one item the opener is invoked at most
\* once, and an item built without an opener keeps its stream None.
C13_OpenerAtMostOnce ==
    /\ open_calls <= 1
    /\ (Built /\ item._opener = "None") => item._stream = << >>

\* C13 (amended): the opener is invoked only while the item holds no stream
\* and has an opener, at most once in a call, and an invocation that returns
\* leaves a stream cached; once a stream is cached _open returns without
\* calling the opener or replacing the stream, and the opener is never invoked
\* again; an item built without an opener keeps its stream None.
C13_OpenOnlyWhileNoStream ==
    [][ /\ open_calls' # open_calls
            => /\ item._stream = << >> /\ item._opener # "None"
               /\ open_calls' = open_calls + 1
        /\ (open_calls' # open_calls /\ last'.exc # "IOError") => item'._stream # << >>
        /\ (Built /\ item._stream # << >>)
            => /\ _open(item) = [self |-> item, exc |-> "", opened |-> 0]
               /\ item'._stream # << >>
               /\ open_calls' = open_calls
        /\ (Built /\ item._opener = "None")
            => (item._stream = << >> /\ item'._stream = << >>) ]_vars

\* the opener returned a stream, the parse hook raised, and a later read
\* parsed again on the cached stream
C13_Witness ==
    /\ open_calls = 1 /\ parse_calls = 2 /\ item._stream # << >>
    /\ last.op \in {"get", "read", "serialize"}

\* C14: in every state of every item '_content' is a member of
\* keys_without_aliases(), whatever the alias table and the storage
\* properties.
C14_ContentAlwaysPresent == Built => "_content" \in keys_without_aliases(item)

\* C15: the opener and the parse hook are invoked only by a get (directly, or
\* through read or serialize) of a name whose canonical key is no storage
\* property, on an item not yet loaded.  set and write on any name, get of a
\* storage property (by canonical name or by alias), keys() and
\* keys_without_aliases() invoke neither and leave the loaded flag and the
\* stream as they were.
C15_OnlyLazyGetLoads ==
    [][ Built =>
         /\ (parse_calls' # parse_calls \/ open_calls' # open_calls)
               => /\ ~item._loaded
                  /\ last'.op \in {"get", "read", "serialize"}
                  /\ last'.op \in {"get", "read"} => ~StorageOrigin(item, last'.key)
                  /\ last'.op = "serialize"
                       => \E n \in keys_without_aliases(item) : ~StorageOrigin(item, n)
         /\ (\/ last'.op \in {"set", "write", "keys", "keys_without_aliases"}
             \/ last'.op \in {"get", "read"} /\ StorageOrigin(item, last'.key))
               => /\ parse_calls' = parse_calls /\ open_calls' = open_calls
                  /\ item'._loaded = item._loaded /\ item'._stream = item._stream ]_vars

\* a storage property was read through its alias on an item that has an
\* opener and is still not loaded
C15_Witness ==
    /\ Built /\ last.op = "get" /\ last.exc = ""
    /\ last.key \in DOMAIN item.aliases /\ StorageOrigin(item, last.key)
    /\ last.ret = item.storage_properties[Aliasing(item, last.key)]
    /\ item._opener = "cork_opener" /\ ~item._loaded /\ item._stream = << >>
    /\ parse_calls = 0 /\ open_calls = 0

C17_SerializeFullPropertySet ==
    (Built /\ last.op = "serialize" /\ last.exc = "")
        => /\ DOMAIN last.props = keys_without_aliases(item)
           /\ \A k \in DOMAIN last.props, hook \in HooksOf(item) :
                 last.props[k] = ItemProperties__getitem__(item, k, hook).ret

\* C18: when the opener or the parse hook raises during a get, the get raises
\* that error and the item stays not loaded, with its parsed map, its storage
\* properties, the old snapshot and the content-modified flag as before the
\* call.
C18_RaisingGetChangesNothing ==
    [][ Built =>
         /\ (last'.op = "get" /\ last'.exc \in {"IOError", "AttributeError", "HookError"})
               => /\ ~item._loaded /\ ~item'._loaded
                  /\ item'.data = item.data
                  /\ item'.storage_properties = item.storage_properties
                  /\ item'.storage_properties_old = item.storage_properties_old
                  /\ item'.parser_content_modified = item.parser_content_modified
         /\ \A key \in Names, hook \in HooksOf(item) :
               (~item._loaded /\ ~StorageOrigin(item, key))
                  => LET o == _open(item)
                         g == ItemProperties__getitem__(item, key, hook)
                     IN /\ o.exc # "" => g.exc = o.exc
                        /\ (o.exc = "" /\ _custom_parse_data(o.self, hook).exc # "")
                              => g.exc = _custom_parse_data(o.self, hook).exc ]_vars

\* the parse hook raised in a get on an item whose content had been modified
C18_Witness ==
    /\ Built /\ last.op = "get" /\ last.exc = "HookError"
    /\ ~item._loaded /\ item.parser_content_modified
    /\ item.storage_properties # item.storage_properties_old

\* C19: right after the construction of an item with storage properties S the
\* live storage properties and the old snapshot both are S, and
\* content_modified() is false.
C19_ConstructionKeepsStorage ==
    (origin = "get_item_parser" /\ last.op = "get_item_parser")
        => /\ item.storage_properties = last.props
           /\ item.storage_properties_old = last.props
           /\ ~content_modified(item)

\* C20 (as claimed): on a capsule _load_subitems is invoked at most once per
\* item.
C20_LoadAtMostOnce == load_calls <= 1

\* C20 (amended): _load_subitems is invoked only by an access to subitems
\* while the item has no _subitems, at most once in an access; an invocation
\* that returns leaves _subitems set, and from then on every access returns
\* that same list and _load_subitems is never invoked again.
C20_LoadOnlyWhileNoSubitems ==
    [][ /\ load_calls' # load_calls
            => /\ last'.op = "subitems" /\ item._subitems = << >>
               /\ load_calls' = load_calls + 1
        /\ (load_calls' # load_calls /\ last'.exc = "")
            => (item'._subitems # << >> /\ last'.list = item'._subitems)
        /\ (load_calls' # load_calls /\ last'.exc # "") => item'._subitems = << >>
        /\ (Built /\ item._subitems # << >>)
            => /\ item'._subitems = item._subitems
               /\ load_calls' = load_calls
               /\ last'.op = "subitems" => (last'.exc = "" /\ last'.list = item._subitems)
               /\ \A hook \in LoadHooks :
                     subitems(item, hook, load_calls + 1)
                        = [self |-> item, ret |-> item._subitems, exc |-> "", loaded |-> 0] ]_vars

\* _load_subitems raised at the first access and returned at the second;
\* a later call on the capsule found the list of the second access
C20_Witness ==
    /\ item.cls = "CorkCapsule" /\ load_calls = 2
    /\ item._subitems # << >> /\ item._subitems[1].id = 2
    /\ last.op \in {"get", "set", "serialize"}

====
